---- MODULE Spec2Model ----
(***************************************************************************)
(* Model of pyspark_app/main.py: the DataProcessor class.                  *)
(*                                                                         *)
(* A DataFrame is a record [cols, rows]: cols is the ordered schema (a     *)
(* sequence of column names, duplicates possible after a rename), rows is  *)
(* a sequence of rows, each row a sequence of values aligned with cols.    *)
(* A CSV file is [exists, df].  Every method that can raise returns a      *)
(* record [ok, df, errlogs, exc]: errlogs is the number of logger.error    *)
(* calls the method itself made, exc the exception that leaves it.         *)
(***************************************************************************)
EXTENDS Integers, Sequences, FiniteSets, TLC

VARIABLES
    pc,                 \* position of the run: "main", a stage of process_data, "done", "failed"
    started,            \* the stages of process_data started so far, in order
    errors,             \* logger.error calls made during the run
    raised,             \* exception process_data raised to its caller, or "none"
    failedStage,        \* the stage that failed, or "none"
    written,            \* content of the output CSV file (NoFile until written)
    clients_file,       \* args.clients_file: the file behind the path
    financials_file,    \* args.financials_file: the file behind the path
    args_countries,     \* args.countries as argparse leaves it
    countries,          \* countries_to_filter
    selection_cfg,      \* content of column_selection_config.yaml
    rename_cfg,         \* content of column_rename_config.yaml
    fault,              \* the environment failure of this run, or "none"
    clients,            \* process_data locals
    financials,
    filtered_data,
    joined_data,
    result_data,
    result_data_no_id,
    handlers,           \* handlers of the logger "BitcoinTrading rotating Log"
    constructed,        \* DataProcessor instances constructed in this process
    logCalls,           \* log calls made by callers after construction
    sinks,              \* the records written so far (their levels), per sink
    lastEmit            \* records the latest log call wrote, per sink

vars == << pc, started, errors, raised, failedStage, written, clients_file,
           financials_file, args_countries, countries, selection_cfg, rename_cfg,
           fault, clients, financials, filtered_data, joined_data, result_data,
           result_data_no_id, handlers, constructed, logCalls, sinks, lastEmit >>

runVars == << pc, started, errors, raised, failedStage, written, countries,
              clients, financials, filtered_data, joined_data, result_data,
              result_data_no_id >>

inputVars == << clients_file, financials_file, args_countries, selection_cfg,
                rename_cfg, fault >>

logVars == << handlers, constructed, logCalls, sinks, lastEmit >>

-----------------------------------------------------------------------------
(* Bounds of the model. *)

MaxRows == 2
MaxCountries == 2
MaxRenames == 2
MaxConstructions == 3
MaxLogCalls == 3

-----------------------------------------------------------------------------
(* Python values and small helpers. *)

None == "<None>"

Truthy(v) == v # None /\ v # ""

Get(d, k, default) == IF k \in DOMAIN d THEN d[k] ELSE default

Has(seq, x) == \E i \in DOMAIN seq : seq[i] = x

IndexOf(seq, x) == CHOOSE i \in DOMAIN seq : seq[i] = x /\ \A j \in 1..(i - 1) : seq[j] # x

Range(seq) == { seq[i] : i \in DOMAIN seq }

SeqsUpTo(S, n) == UNION { [1..k -> S] : k \in 0..n }

RemoveAt(seq, i) == [ k \in 1..(Len(seq) - 1) |-> IF k < i THEN seq[k] ELSE seq[k + 1] ]

RECURSIVE Flatten(_)
Flatten(ss) == IF ss = << >> THEN << >> ELSE Head(ss) \o Flatten(Tail(ss))

EmptyDF == [cols |-> << >>, rows |-> << >>]

NoFile == [exists |-> FALSE, df |-> EmptyDF]

Ok(df) == [ok |-> TRUE, df |-> df, errlogs |-> 0, exc |-> "none"]

Raise(exc, errlogs) == [ok |-> FALSE, df |-> EmptyDF, errlogs |-> errlogs, exc |-> exc]

-----------------------------------------------------------------------------
(* setup_logging and the logger it configures. *)

LoggerLevel == 10

LevelNo(level) ==
    CASE level = "DEBUG" -> 10
      [] level = "INFO" -> 20
      [] level = "ERROR" -> 40

(* A setup_logging that attaches its handlers only to a logger that has none. *)
setup_logging_guarded(hs) == IF hs = << >> THEN << "file", "stream" >> ELSE hs

(* logger.addHandler(log_handler); logger.addHandler(streamHandler): the two
   handlers are new objects on every call, so addHandler always appends. *)
setup_logging(hs) == hs \o << "file", "stream" >>

(* Logger.log on the named logger: the record passes the logger's level and
   is handed to every attached handler, each writing one record to its sink. *)
callHandlers(hs, level) ==
    IF LevelNo(level) >= LoggerLevel
    THEN [ file    |-> Cardinality({ i \in DOMAIN hs : hs[i] = "file" }),
           console |-> Cardinality({ i \in DOMAIN hs : hs[i] = "stream" }) ]
    ELSE [ file |-> 0, console |-> 0 ]

-----------------------------------------------------------------------------
(* read_csv_file *)

(* DataFrame.select(cols): the listed columns, in the listed order. *)
Select(df, cs) ==
    [ cols |-> cs,
      rows |-> [ r \in DOMAIN df.rows |->
                   [ k \in DOMAIN cs |-> df.rows[r][IndexOf(df.cols, cs[k])] ] ] ]

(* A reader that raises without logging the error. *)
read_csv_file_unlogged(file, selected_columns) ==
    IF ~file.exists
    THEN Raise("Exception", 0)
    ELSE IF selected_columns # << >>
         THEN IF \A k \in DOMAIN selected_columns : Has(file.df.cols, selected_columns[k])
              THEN Ok(Select(file.df, selected_columns))
              ELSE Raise("Exception", 0)
         ELSE Ok(file.df)

(* A reader that projects whenever a list is given, the empty one included. *)
read_csv_file_always_selects(file, selected_columns) ==
    IF ~file.exists
    THEN Raise("Exception", 1)
    ELSE IF \A k \in DOMAIN selected_columns : Has(file.df.cols, selected_columns[k])
         THEN Ok(Select(file.df, selected_columns))
         ELSE Raise("Exception", 1)

(* The reader logs one error and raises Exception on any failure: a missing
   path, or a selected column the file does not have. *)
read_csv_file(file, selected_columns) ==
    IF ~file.exists
    THEN Raise("Exception", 1)
    ELSE IF selected_columns # << >>
         THEN IF \A k \in DOMAIN selected_columns : Has(file.df.cols, selected_columns[k])
              THEN Ok(Select(file.df, selected_columns))
              ELSE Raise("Exception", 1)
         ELSE Ok(file.df)

-----------------------------------------------------------------------------
(* filter_data *)

(* Column.isin(list) *)
isin(v, list) == \E i \in DOMAIN list : list[i] = v

(* A filter that treats an empty country list as "no filter". *)
filter_data_empty_keeps_all(clients_df, cs, engineFails) ==
    IF ~Has(clients_df.cols, "country")
    THEN Raise("AttributeError", 0)
    ELSE IF engineFails
         THEN Raise("AnalysisException", 1)
         ELSE LET c == IndexOf(clients_df.cols, "country")
                  Keep(row) == cs = << >> \/ isin(row[c], cs)
              IN  Ok([ cols |-> clients_df.cols, rows |-> SelectSeq(clients_df.rows, Keep) ])

(* clients_df.country raises AttributeError when the column is absent (not
   caught here); an AnalysisException of the engine is logged and re-raised. *)
filter_data(clients_df, cs, engineFails) ==
    IF ~Has(clients_df.cols, "country")
    THEN Raise("AttributeError", 0)
    ELSE IF engineFails
         THEN Raise("AnalysisException", 1)
         ELSE LET c == IndexOf(clients_df.cols, "country")
                  Keep(row) == isin(row[c], cs)
              IN  Ok([ cols |-> clients_df.cols, rows |-> SelectSeq(clients_df.rows, Keep) ])

-----------------------------------------------------------------------------
(* join_datasets *)

(* A join that keeps every left row, padding the ones without a match. *)
join_datasets_left_outer(clients_df, financials_df, engineFails) ==
    IF ~Has(clients_df.cols, "id") \/ ~Has(financials_df.cols, "id")
    THEN Raise("AttributeError", 0)
    ELSE IF engineFails
         THEN Raise("AnalysisException", 1)
         ELSE LET li == IndexOf(clients_df.cols, "id")
                  ri == IndexOf(financials_df.cols, "id")
                  Pad == [ k \in 1..(Len(financials_df.cols) - 1) |-> None ]
                  MatchesOf(l) ==
                      LET Eq(r) == l[li] = r[ri]
                          m == SelectSeq(financials_df.rows, Eq)
                      IN  IF m = << >> THEN << l \o Pad >>
                          ELSE [ k \in DOMAIN m |-> l \o RemoveAt(m[k], ri) ]
              IN  Ok([ cols |-> clients_df.cols \o RemoveAt(financials_df.cols, ri),
                       rows |-> Flatten([ n \in DOMAIN clients_df.rows |->
                                            MatchesOf(clients_df.rows[n]) ]) ])

(* clients_df.join(financials_df, clients_df.id == financials_df.id)
   .drop(financials_df.id): inner join, the right side's id column dropped. *)
join_datasets(clients_df, financials_df, engineFails) ==
    IF ~Has(clients_df.cols, "id") \/ ~Has(financials_df.cols, "id")
    THEN Raise("AttributeError", 0)
    ELSE IF engineFails
         THEN Raise("AnalysisException", 1)
         ELSE LET li == IndexOf(clients_df.cols, "id")
                  ri == IndexOf(financials_df.cols, "id")
                  MatchesOf(l) ==
                      LET Eq(r) == l[li] = r[ri]
                          m == SelectSeq(financials_df.rows, Eq)
                      IN  [ k \in DOMAIN m |-> l \o RemoveAt(m[k], ri) ]
              IN  Ok([ cols |-> clients_df.cols \o RemoveAt(financials_df.cols, ri),
                       rows |-> Flatten([ n \in DOMAIN clients_df.rows |->
                                            MatchesOf(clients_df.rows[n]) ]) ])

-----------------------------------------------------------------------------
(* rename_columns *)

(* DataFrame.withColumnRenamed(existing, new) *)
withColumnRenamed(df, existing, new) ==
    [ df EXCEPT !.cols = [ i \in DOMAIN df.cols |->
                             IF df.cols[i] = existing THEN new ELSE df.cols[i] ] ]

(* The body of the for loop: one rename entry applied to data_df. *)
ApplyEntry(df, rename_entry) ==
    LET original_name == Get(rename_entry, "original_name", None)
        new_name == Get(rename_entry, "new_name", None)
    IN  IF Truthy(original_name) /\ Truthy(new_name)
        THEN withColumnRenamed(df, original_name, new_name)
        ELSE df

RECURSIVE RenameLoop(_, _)
RenameLoop(df, entries) ==
    IF entries = << >> THEN df
    ELSE RenameLoop(ApplyEntry(df, Head(entries)), Tail(entries))

(* A loop that walks the entries from the last one to the first. *)
RECURSIVE RenameLoopBackwards(_, _)
RenameLoopBackwards(df, entries) ==
    IF entries = << >> THEN df
    ELSE ApplyEntry(RenameLoopBackwards(df, Tail(entries)), Head(entries))

rename_columns_backwards(data_df, cfg, loadFails) ==
    IF loadFails
    THEN Raise("OSError", 0)
    ELSE Ok(RenameLoopBackwards(data_df, Get(cfg, "renamed_columns", << >>)))

(* load_column_rename_config may raise (not caught here); then the entries of
   'renamed_columns' are applied in list order. *)
rename_columns(data_df, cfg, loadFails) ==
    IF loadFails
    THEN Raise("OSError", 0)
    ELSE Ok(RenameLoop(data_df, Get(cfg, "renamed_columns", << >>)))

-----------------------------------------------------------------------------
(* The tail of process_data. *)

(* A drop step that hands the dataset on unchanged. *)
drop_key_if_present_noop(df) == Ok(df)

(* result_data.drop("id", axis=1) if "id" in result_data.columns else
   result_data: DataFrame.drop takes column arguments only, no keyword, so the call
   raises TypeError whenever the condition is true. *)
drop_key_if_present(df) ==
    IF Has(df.cols, "id") THEN Raise("TypeError", 0) ELSE Ok(df)

(* save_to_file: toPandas().to_csv(file_path, index=False); any failure is
   logged and re-raised as Exception. *)
save_to_file(data_df, writeFails) ==
    IF writeFails THEN Raise("Exception", 1) ELSE Ok(data_df)

(* An orchestrator that logs the failure and returns normally. *)
process_data_except_swallows(exc) == [errlogs |-> 1, raised |-> "none"]

(* The except clauses of process_data: one error record, then the re-raise. *)
process_data_except(exc) ==
    IF exc = "AnalysisException"
    THEN [errlogs |-> 1, raised |-> "AnalysisException"]
    ELSE [errlogs |-> 1, raised |-> "Exception"]

-----------------------------------------------------------------------------
(* The inputs of a run: files, command line, configuration documents and the
   one environment failure (if any) that the run meets. *)

File(cols, rows) == [exists |-> TRUE, df |-> [cols |-> cols, rows |-> rows]]

FilesOf(cols, rowSet, n) == { File(cols, rs) : rs \in SeqsUpTo(rowSet, n) }

Given(values) == [given |-> TRUE, values |-> values]

NotGiven == [given |-> FALSE, values |-> << >>]

Entry(a, b) == [original_name |-> a, new_name |-> b]

NoKeys == [version |-> "1"]

Faults == { "none", "spark", "selection_config", "filter", "join",
            "rename_config", "show", "write" }

ClientFiles ==
    { NoFile,
      File(<< "id", "country", "name" >>,
           << << "1", "PL", "ann" >>, << "2", "NL", "bob" >>, << "3", "KOR", "cy" >> >>),
      File(<< "country", "id" >>, << << "PL", "1" >>, << "PL", "1" >> >>),
      File(<< "id", "name" >>, << << "1", "ann" >> >>),
      File(<< "country", "name" >>, << << "PL", "ann" >> >>) }

FinancialFiles ==
    { NoFile,
      File(<< "id", "amount" >>, << << "1", "10" >>, << "3", "30" >>, << "4", "40" >> >>),
      File(<< "amount", "id", "name" >>, << << "10", "1", "x" >>, << "11", "1", "y" >> >>),
      File(<< "amount" >>, << << "10" >> >>) }

CountryArgs ==
    { NotGiven, Given(<< "PL" >>), Given(<< "KOR", "PL" >>), Given(<< "DE" >>) }

SelectionConfigs ==
    { NoKeys,
      [clients_columns |-> << >>, financials_columns |-> << "amount", "id" >>],
      [clients_columns |-> << "country", "id" >>],
      [clients_columns |-> << "id", "name" >>, financials_columns |-> << "id" >>],
      [financials_columns |-> << "id", "fee" >>] }

RenameConfigs ==
    { NoKeys,
      [renamed_columns |-> << >>],
      [renamed_columns |-> << Entry("country", "nationality"), Entry("amount", "btc") >>],
      [renamed_columns |-> << Entry("id", "client_identifier"), Entry("name", "who") >>],
      [renamed_columns |-> << [original_name |-> "id"], Entry("id", "cid"), Entry("cid", "id") >>],
      [renamed_columns |-> << Entry("id", "cid"), Entry("country", "id") >>] }

(* Wider inputs for one stage at a time. *)
FilterRows == { << i, c, "n" >> : i \in { "1", "2" }, c \in { "PL", "NL", "DE" } }

CountryLists == SeqsUpTo({ "PL", "NL" }, MaxCountries)

JoinLeftRows == { << i, "PL", n >> : i \in { "1", "2" }, n \in { "a", "b" } }

JoinRightRows == { << i, a >> : i \in { "1", "2", "3" }, a \in { "10", "20" } }

RenameEntries ==
    { Entry("id", "cid"), Entry("cid", "id"), Entry("name", "country"),
      Entry("country", "name"), Entry("amount", "id"), Entry("", "x"),
      Entry("name", ""),
      [original_name |-> "id"], [new_name |-> "x"] }

FixedClients == File(<< "id", "country", "name" >>,
                     << << "1", "PL", "ann" >>, << "2", "NL", "bob" >> >>)

FixedFinancials == File(<< "id", "amount" >>, << << "2", "20" >>, << "1", "10" >> >>)

RenamesId == [renamed_columns |-> << Entry("id", "client_identifier") >>]

-----------------------------------------------------------------------------
(* The state before main() runs: one DataProcessor constructed. *)

InputsMixed ==
    /\ clients_file \in ClientFiles
    /\ financials_file \in FinancialFiles
    /\ args_countries \in CountryArgs
    /\ selection_cfg \in SelectionConfigs
    /\ rename_cfg \in RenameConfigs
    /\ fault \in Faults

InputsFilter ==
    /\ clients_file \in FilesOf(<< "id", "country", "name" >>, FilterRows, MaxRows)
    /\ financials_file = FixedFinancials
    /\ args_countries \in { NotGiven } \cup { Given(v) : v \in CountryLists \ { << >> } }
    /\ selection_cfg = NoKeys
    /\ rename_cfg = RenamesId
    /\ fault = "none"

InputsJoin ==
    /\ clients_file \in FilesOf(<< "id", "country", "name" >>, JoinLeftRows, MaxRows)
    /\ financials_file \in FilesOf(<< "id", "amount" >>, JoinRightRows, MaxRows)
    /\ args_countries = Given(<< "PL" >>)
    /\ selection_cfg = NoKeys
    /\ rename_cfg = RenamesId
    /\ fault = "none"

InputsRename ==
    /\ clients_file = FixedClients
    /\ financials_file = FixedFinancials
    /\ args_countries = Given(<< "PL", "NL" >>)
    /\ selection_cfg = NoKeys
    /\ rename_cfg \in { [renamed_columns |-> es] : es \in SeqsUpTo(RenameEntries, MaxRenames) }
    /\ fault = "none"

RunInit ==
    /\ pc = "main"
    /\ started = << >>
    /\ errors = 0
    /\ raised = "none"
    /\ failedStage = "none"
    /\ written = NoFile
    /\ countries = << >>
    /\ clients = EmptyDF
    /\ financials = EmptyDF
    /\ filtered_data = EmptyDF
    /\ joined_data = EmptyDF
    /\ result_data = EmptyDF
    /\ result_data_no_id = EmptyDF

Init ==
    /\ RunInit
    /\ InputsMixed \/ InputsFilter \/ InputsJoin \/ InputsRename
    /\ constructed = 1
    /\ handlers = setup_logging(<< >>)
    /\ logCalls = 0
    /\ sinks = [file |-> << "INFO" >>, console |-> << "INFO" >>]
    /\ lastEmit = [file |-> 1, console |-> 1]

-----------------------------------------------------------------------------
(* main and the stages of process_data. *)

(* The order of the statements of the try block. *)
NextStageJoinFirst(stage) ==
    CASE stage = "create_spark_session" -> "load_config"
      [] stage = "load_config" -> "read_clients"
      [] stage = "read_clients" -> "read_financials"
      [] stage = "read_financials" -> "join"
      [] stage = "join" -> "filter"
      [] stage = "filter" -> "rename"
      [] stage = "rename" -> "show"
      [] stage = "show" -> "drop_key_if_present"
      [] stage = "drop_key_if_present" -> "write"
      [] stage = "write" -> "done"

NextStage(stage) ==
    CASE stage = "create_spark_session" -> "load_config"
      [] stage = "load_config" -> "read_clients"
      [] stage = "read_clients" -> "read_financials"
      [] stage = "read_financials" -> "filter"
      [] stage = "filter" -> "join"
      [] stage = "join" -> "rename"
      [] stage = "rename" -> "show"
      [] stage = "show" -> "drop_key_if_present"
      [] stage = "drop_key_if_present" -> "write"
      [] stage = "write" -> "done"

(* One statement of the try block with outcome r: on success control moves to
   the next statement, on an exception to the except clauses. *)
Step(stage, r) ==
    /\ pc = stage
    /\ started' = Append(started, stage)
    /\ IF r.ok
       THEN /\ pc' = NextStage(stage)
            /\ UNCHANGED << errors, raised, failedStage >>
       ELSE LET h == process_data_except(r.exc)
            IN  /\ pc' = "failed"
                /\ failedStage' = stage
                /\ errors' = errors + r.errlogs + h.errlogs
                /\ raised' = h.raised
    /\ UNCHANGED inputVars
    /\ UNCHANGED logVars

Env(stage) == IF fault = stage THEN Raise("Exception", 0) ELSE Ok(EmptyDF)

main ==
    /\ pc = "main"
    /\ countries' = IF args_countries.given /\ args_countries.values # << >>
                    THEN args_countries.values ELSE << >>
    /\ pc' = "create_spark_session"
    /\ UNCHANGED << started, errors, raised, failedStage, written, clients, financials,
                    filtered_data, joined_data, result_data, result_data_no_id >>
    /\ UNCHANGED inputVars
    /\ UNCHANGED logVars

create_spark_session ==
    /\ Step("create_spark_session", Env("spark"))
    /\ UNCHANGED << written, countries, clients, financials, filtered_data, joined_data,
                    result_data, result_data_no_id >>

load_column_selection_config ==
    /\ Step("load_config", Env("selection_config"))
    /\ UNCHANGED << written, countries, clients, financials, filtered_data, joined_data,
                    result_data, result_data_no_id >>

read_clients ==
    LET r == read_csv_file(clients_file, Get(selection_cfg, "clients_columns", << >>))
    IN  /\ Step("read_clients", r)
        /\ clients' = IF r.ok THEN r.df ELSE clients
        /\ UNCHANGED << written, countries, financials, filtered_data, joined_data,
                        result_data, result_data_no_id >>

read_financials ==
    LET r == read_csv_file(financials_file, Get(selection_cfg, "financials_columns", << >>))
    IN  /\ Step("read_financials", r)
        /\ financials' = IF r.ok THEN r.df ELSE financials
        /\ UNCHANGED << written, countries, clients, filtered_data, joined_data,
                        result_data, result_data_no_id >>

filter ==
    LET r == filter_data(clients, countries, fault = "filter")
    IN  /\ Step("filter", r)
        /\ filtered_data' = IF r.ok THEN r.df ELSE filtered_data
        /\ UNCHANGED << written, countries, clients, financials, joined_data,
                        result_data, result_data_no_id >>

join ==
    LET r == join_datasets(filtered_data, financials, fault = "join")
    IN  /\ Step("join", r)
        /\ joined_data' = IF r.ok THEN r.df ELSE joined_data
        /\ UNCHANGED << written, countries, clients, financials, filtered_data,
                        result_data, result_data_no_id >>

rename ==
    LET r == rename_columns(joined_data, rename_cfg, fault = "rename_config")
    IN  /\ Step("rename", r)
        /\ result_data' = IF r.ok THEN r.df ELSE result_data
        /\ UNCHANGED << written, countries, clients, financials, filtered_data,
                        joined_data, result_data_no_id >>

show ==
    /\ Step("show", Env("show"))
    /\ UNCHANGED << written, countries, clients, financials, filtered_data, joined_data,
                    result_data, result_data_no_id >>

drop_key ==
    LET r == drop_key_if_present(result_data)
    IN  /\ Step("drop_key_if_present", r)
        /\ result_data_no_id' = IF r.ok THEN r.df ELSE result_data_no_id
        /\ UNCHANGED << written, countries, clients, financials, filtered_data,
                        joined_data, result_data >>

write ==
    LET r == save_to_file(result_data_no_id, fault = "write")
    IN  /\ Step("write", r)
        /\ written' = IF r.ok THEN [exists |-> TRUE, df |-> r.df] ELSE written
        /\ UNCHANGED << countries, clients, financials, filtered_data, joined_data,
                        result_data, result_data_no_id >>

Next ==
    \/ main
    \/ create_spark_session
    \/ load_column_selection_config
    \/ read_clients
    \/ read_financials
    \/ filter
    \/ join
    \/ rename
    \/ show
    \/ drop_key
    \/ write

Spec == Init /\ [][Next]_vars

-----------------------------------------------------------------------------
(* Constructing DataProcessor instances in one process, and logging. *)

LogInit ==
    /\ RunInit
    /\ clients_file = FixedClients
    /\ financials_file = FixedFinancials
    /\ args_countries = NotGiven
    /\ selection_cfg = NoKeys
    /\ rename_cfg = NoKeys
    /\ fault = "none"
    /\ constructed = 0
    /\ handlers = << >>
    /\ logCalls = 0
    /\ sinks = [file |-> << >>, console |-> << >>]
    /\ lastEmit = [file |-> 0, console |-> 0]

Emit(hs, level) ==
    LET e == callHandlers(hs, level)
    IN  /\ lastEmit' = e
        /\ sinks' = [file    |-> sinks.file \o [k \in 1..e.file |-> level],
                     console |-> sinks.console \o [k \in 1..e.console |-> level]]

(* DataProcessor(): __init__ calls setup_logging, which ends by logging
   "Logging initialized." through the handlers now attached.  (A setup_logging
   that raises does so before it attaches anything and leaves the state as it
   was.) *)
Construct ==
    /\ constructed < MaxConstructions
    /\ constructed' = constructed + 1
    /\ handlers' = setup_logging(handlers)
    /\ Emit(handlers', "INFO")
    /\ UNCHANGED logCalls
    /\ UNCHANGED runVars
    /\ UNCHANGED inputVars

(* Any self.logger.debug / info / error call of an instance. *)
LogCall ==
    /\ constructed > 0
    /\ logCalls < MaxLogCalls
    /\ logCalls' = logCalls + 1
    /\ \E level \in { "DEBUG", "INFO", "ERROR" } : Emit(handlers, level)
    /\ UNCHANGED << handlers, constructed >>
    /\ UNCHANGED runVars
    /\ UNCHANGED inputVars

LogNext == Construct \/ LogCall

SpecLogging == LogInit /\ [][LogNext]_vars

-----------------------------------------------------------------------------
(* Vocabulary of the properties. *)

Passed(stage) == Has(started, stage) /\ failedStage # stage

Count(rows, x) == Cardinality({ i \in DOMAIN rows : rows[i] = x })

IsPrefix(a, b) == Len(a) <= Len(b) /\ \A i \in DOMAIN a : a[i] = b[i]

Min(a, b) == IF a <= b THEN a ELSE b

UniqueIds(df) ==
    LET k == IndexOf(df.cols, "id")
    IN  \A i, j \in DOMAIN df.rows : df.rows[i][k] = df.rows[j][k] => i = j

StageOrder ==
    << "read_clients", "read_financials", "filter", "join", "rename",
       "drop_key_if_present", "write" >>

InStageOrder(s) == Has(StageOrder, s)

ClaimStages == SelectSeq(started, InStageOrder)

-----------------------------------------------------------------------------
(* C1: the stages of process_data start in the fixed order read(clients),
   read(financials), filter, join, rename, drop_key_if_present, write; none
   runs twice, and a run that reaches DONE has run every one of them. *)
C1_FixedStageOrder ==
    /\ IsPrefix(ClaimStages, StageOrder)
    /\ pc = "done" => ClaimStages = StageOrder

C1_Witness == pc = "done" /\ written.exists /\ Len(written.df.rows) > 0

-----------------------------------------------------------------------------
(* C2: when a stage of process_data fails, it is the last stage that ran, no
   further step is taken, process_data raises to its caller, and a failure
   before the write stage leaves the write stage unstarted and the output
   file unwritten. *)
C2_FailureAborts ==
    pc = "failed" =>
        /\ raised # "none"
        /\ started # << >> /\ started[Len(started)] = failedStage
        /\ ~ ENABLED Next
        /\ failedStage # "write" => ~Has(started, "write") /\ ~written.exists

C2_Witness == pc = "failed" /\ failedStage = "join" /\ Len(filtered_data.rows) > 0

-----------------------------------------------------------------------------
(* C3: a run whose inputs are valid (both files readable with an id column,
   clients with a country column, the configurations loadable and keeping
   those columns, the output writable) ends in DONE, without raising, with
   the output written. *)
KeepsNeeded(file, key, needed) ==
    LET l == Get(selection_cfg, key, << >>)
    IN  \/ l = << >>
        \/ /\ \A k \in DOMAIN l : Has(file.df.cols, l[k])
           /\ \A c \in needed : Has(l, c)

ValidInputs ==
    /\ fault = "none"
    /\ clients_file.exists /\ financials_file.exists
    /\ Has(clients_file.df.cols, "id") /\ Has(clients_file.df.cols, "country")
    /\ Has(financials_file.df.cols, "id")
    /\ KeepsNeeded(clients_file, "clients_columns", { "id", "country" })
    /\ KeepsNeeded(financials_file, "financials_columns", { "id" })

C3_ValidRunCompletes ==
    (ValidInputs /\ pc \in { "done", "failed" }) =>
        pc = "done" /\ raised = "none" /\ written.exists

-----------------------------------------------------------------------------
(* C4: whenever the write stage is executed, the dataset passed to it has no
   column named id, and it is the renamed dataset unchanged when that one has
   no id column; the file written has no id column either. *)
C4_WrittenWithoutId ==
    Has(started, "write") =>
        /\ ~Has(result_data_no_id.cols, "id")
        /\ ~Has(result_data.cols, "id") => result_data_no_id = result_data
        /\ written.exists => ~Has(written.df.cols, "id")

C4_Witness ==
    /\ Has(started, "write") /\ written.exists
    /\ Has(joined_data.cols, "id") /\ ~Has(result_data.cols, "id")

-----------------------------------------------------------------------------
(* C5: a run that fails on a missing input file raises to the caller, never
   starts the write stage, and makes exactly one error-severity log call. *)
MissingInput ==
    \/ failedStage = "read_clients" /\ ~clients_file.exists
    \/ failedStage = "read_financials" /\ ~financials_file.exists

C5_LoggedOnce ==
    MissingInput => raised # "none" /\ ~Has(started, "write") /\ errors = 1

(* C5, amended: such a run makes exactly two error-severity log calls, one in
   read_csv_file and one in process_data, and raises Exception. *)
C5_LoggedTwice ==
    MissingInput =>
        /\ raised = "Exception"
        /\ ~Has(started, "write") /\ ~written.exists
        /\ errors = 2

C5_Witness == pc = "failed" /\ MissingInput /\ ~financials_file.exists

-----------------------------------------------------------------------------
(* C6: filter_data returns exactly the rows of the clients dataset whose
   country is an element of the country list, each as often as it occurs,
   under the same columns; no rows for an empty list, which is what main
   passes when --countries is omitted; the clients dataset stays as read. *)
C6_FilterCorrect ==
    Passed("filter") =>
        LET c == IndexOf(clients.cols, "country")
        IN  /\ filtered_data.cols = clients.cols
            /\ \A x \in Range(clients.rows) \cup Range(filtered_data.rows) :
                   Count(filtered_data.rows, x) =
                       IF x[c] \in Range(countries) THEN Count(clients.rows, x) ELSE 0
            /\ countries = << >> => filtered_data.rows = << >>
            /\ ~args_countries.given => countries = << >>
            /\ Get(selection_cfg, "clients_columns", << >>) = << >> =>
                   clients = clients_file.df

C6_Witness ==
    /\ Passed("filter")
    /\ filtered_data.rows # << >>
    /\ Len(filtered_data.rows) < Len(clients.rows)

-----------------------------------------------------------------------------
(* C7: join_datasets returns one row per pair of a left and a right row with
   equal id, the left row followed by the right row without its id, and
   nothing else; its columns are the left columns followed by the right
   columns without id; with unique ids on both sides it has at most
   min(|L|, |R|) rows. *)
C7_JoinCorrect ==
    Passed("join") =>
        LET L == filtered_data
            R == financials
            li == IndexOf(L.cols, "id")
            ri == IndexOf(R.cols, "id")
            pairs == { p \in (DOMAIN L.rows) \X (DOMAIN R.rows) :
                         L.rows[p[1]][li] = R.rows[p[2]][ri] }
            Out(p) == L.rows[p[1]] \o RemoveAt(R.rows[p[2]], ri)
        IN  /\ joined_data.cols = L.cols \o RemoveAt(R.cols, ri)
            /\ Len(joined_data.rows) = Cardinality(pairs)
            /\ \A x \in Range(joined_data.rows) \cup { Out(p) : p \in pairs } :
                   Count(joined_data.rows, x) = Cardinality({ p \in pairs : Out(p) = x })
            /\ (UniqueIds(L) /\ UniqueIds(R)) =>
                   Len(joined_data.rows) <= Min(Len(L.rows), Len(R.rows))

C7_Witness ==
    /\ Passed("join")
    /\ joined_data.rows # << >>
    /\ Len(joined_data.rows) < Len(filtered_data.rows)
    /\ Len(joined_data.rows) < Len(financials.rows)

-----------------------------------------------------------------------------
(* C8: rename_columns keeps rows, values, row order and column positions;
   the name of each column is what the entries, taken one after another in
   list order, make of it, an entry without (non-empty) original_name or
   new_name being skipped; a column that no applied entry names keeps its
   name, and an empty list returns the dataset as it was. *)
Lacks(e, k) == k \notin DOMAIN e \/ e[k] = ""

Applies(e) == ~Lacks(e, "original_name") /\ ~Lacks(e, "new_name")

RECURSIVE FinalName(_, _)
FinalName(name, entries) ==
    IF entries = << >> THEN name
    ELSE LET e == Head(entries)
         IN  FinalName(IF Applies(e) /\ e.original_name = name THEN e.new_name ELSE name,
                       Tail(entries))

C8_RenameCorrect ==
    Passed("rename") =>
        LET D == joined_data
            P == Get(rename_cfg, "renamed_columns", << >>)
        IN  /\ result_data.rows = D.rows
            /\ Len(result_data.cols) = Len(D.cols)
            /\ \A i \in DOMAIN D.cols : result_data.cols[i] = FinalName(D.cols[i], P)
            /\ \A i \in DOMAIN D.cols :
                   (\A k \in DOMAIN P : Applies(P[k]) => P[k].original_name # D.cols[i])
                       => result_data.cols[i] = D.cols[i]
            /\ P = << >> => result_data = D

C8_Witness ==
    /\ Passed("rename")
    /\ result_data.rows # << >>
    /\ LET P == Get(rename_cfg, "renamed_columns", << >>)
       IN  /\ Len(P) >= 2
           /\ ~Applies(P[1]) /\ Applies(P[2])
           /\ result_data.cols # joined_data.cols

-----------------------------------------------------------------------------
(* C9: after n constructions the named logger holds 2n handlers, n of them
   writing to the log file and n to the console, and the latest log call
   wrote n records to each sink. *)
C9_HandlersAccumulate ==
    /\ Len(handlers) = 2 * constructed
    /\ Count(handlers, "file") = constructed
    /\ Count(handlers, "stream") = constructed
    /\ lastEmit = [file |-> constructed, console |-> constructed]

C9_Witness ==
    /\ constructed >= 2
    /\ logCalls >= 1
    /\ lastEmit.file >= 2
    /\ Len(sinks.console) > constructed + logCalls

-----------------------------------------------------------------------------
(* C10: a read keeps all columns of the file when the column-selection
   configuration has no key for the dataset or an empty list under it, and
   otherwise exactly the listed columns, in the listed order, with the values
   of those columns. *)
ReadAsConfigured(stage, key, file, df) ==
    Passed(stage) =>
        IF key \notin DOMAIN selection_cfg \/ selection_cfg[key] = << >>
        THEN df = file.df
        ELSE /\ df.cols = selection_cfg[key]
             /\ Len(df.rows) = Len(file.df.rows)
             /\ \A r \in DOMAIN df.rows : \A k \in DOMAIN df.cols :
                    df.rows[r][k] = file.df.rows[r][IndexOf(file.df.cols, df.cols[k])]

C10_ColumnSelection ==
    /\ ReadAsConfigured("read_clients", "clients_columns", clients_file, clients)
    /\ ReadAsConfigured("read_financials", "financials_columns", financials_file, financials)

C10_Witness ==
    /\ Passed("read_financials")
    /\ "clients_columns" \in DOMAIN selection_cfg
    /\ selection_cfg["clients_columns"] = << >>
    /\ Len(clients.cols) > 1 /\ clients.rows # << >>
    /\ financials.cols = << "amount", "id" >>
    /\ financials.cols # financials_file.df.cols

====
